---- MODULE Spec2Model ----
(***************************************************************************)
(* State-machine model of server/tg.py (class TelegramDelivery).           *)
(*                                                                         *)
(* The adapter object is shared by the calling threads.  Every method is   *)
(* split at the places where it reads or writes a shared attribute         *)
(* (health_state, health_logs, last_health_check) or the clock, because    *)
(* CPython may switch threads between any two of them; a program counter   *)
(* per thread (pc) names the source line the thread is about to execute.   *)
(* Steps that touch only locals are folded into the neighbouring step.     *)
(*                                                                         *)
(* Time is the value of datetime.datetime.now() in whole seconds, assumed  *)
(* not to run backwards.                                                   *)
(***************************************************************************)
EXTENDS Integers, Sequences, FiniteSets, TLC

\* ------------------------------------------------------------------ bounds
NThreads == 2
MaxTime == 4
MaxInterval == 2

Threads == 1..NThreads
Times == 0..MaxTime

\* ------------------------------------------------------- Python values
PyNone == [type |-> "NoneType"]
PyStr(s) == [type |-> "str", val |-> s]
PyBool(b) == [type |-> "bool", val |-> b]
PyTuple(a, b) == [type |-> "tuple", val |-> <<a, b>>]

\* No exception pending / no timestamp taken / nothing marked.
NoExc == "-"
NoTs == -1

\* str(e) of the exceptions the dependency can produce: raise_for_status on a
\* non-success status, a transport error of requests.get/post, a timeout.
DepErrors == {"HTTPError", "ConnectionError", "Timeout"}
\* str(e) of an exception raised by the message entity's to_string / get_id.
SerializeError == "SerializeError"
IdError == "IdError"

VARIABLES
  clock,                  \* datetime.datetime.now()
  dep,                    \* the Telegram server: "up" answers 2xx, "down" fails
  health_check_interval,  \* self.health_check_interval
  last_health_check,      \* self.last_health_check
  health_state,           \* self.health_state
  health_logs,            \* self.health_logs
  pc,                     \* per thread: the line it is about to execute
  now,                    \* per thread: local `now` of do_health_check
  ts,                     \* per thread: value of datetime.now() of line 83
  tmp,                    \* per thread: first element of the tuple being built
  exc,                    \* per thread: the exception `e` caught or escaping
  ret,                    \* per thread: the value returned
  resp,                   \* per thread: outcome of the call's HTTP request
  track,                  \* whether the history variables below are recorded
  pre,                    \* history: severity when the current call began
  call_at,                \* history: invocation time of the current call
  last_failed,            \* history: the most recent failed send or probe
  last_probe_at,          \* history: invocation time of the last probing call
  mark,                   \* history: an earlier do_health_check call
  probe_since_mark,       \* history: a probe was issued after the marked call
  invoked,                \* history: the updating operations invoked so far
  last_read,              \* history: what the preceding get_health_state returned
  last_set                \* history: the latest whole update of the record

vars == <<clock, dep, health_check_interval, last_health_check, health_state,
          health_logs, pc, now, ts, tmp, exc, ret, resp, track, pre, call_at,
          last_failed, last_probe_at, mark, probe_since_mark, invoked,
          last_read, last_set>>

shared == <<health_check_interval, last_health_check, health_state, health_logs>>
env == <<clock, dep>>
history == <<track, pre, call_at, last_failed, last_probe_at, mark,
             probe_since_mark>>
observed == <<invoked, last_read, last_set>>

NoFailure == [op |-> "-", err |-> NoExc]
NoMark == [set |-> FALSE]

\* A history variable takes its new value only where history is recorded.
Rec(old, new) == IF track THEN new ELSE old

\* The tuple self.health_state, self.health_logs as it stands right now.
HealthRecord == PyTuple(health_state, health_logs)

\* ---------------------------------------------------------------- __init__
\* The constructor runs at time 0.
ConstructionTime == 0

\* The record kept "since ever" in place of the time of construction.
InitialLastHealthCheckNever(c) == c - MaxInterval

\* line 59: self.last_health_check = datetime.datetime.now()
InitialLastHealthCheck(c) == c

\* The adapter starting out as failed until the first probe.
InitialHealthStateCritical == "CRITICAL"

\* line 60: self.health_state = "OK"
InitialHealthState == "OK"

\* lines 57-61
Constructed ==
  /\ clock = ConstructionTime
  /\ dep \in {"up", "down"}
  /\ health_check_interval \in 1..MaxInterval
  /\ last_health_check = InitialLastHealthCheck(clock)
  /\ health_state = InitialHealthState
  /\ health_logs = PyNone
  /\ pc = [t \in Threads |-> "idle"]
  /\ now = [t \in Threads |-> 0]
  /\ ts = [t \in Threads |-> NoTs]
  /\ tmp = [t \in Threads |-> "-"]
  /\ exc = [t \in Threads |-> NoExc]
  /\ ret = [t \in Threads |-> PyNone]
  /\ resp = [t \in Threads |-> "-"]
  /\ pre = "-"
  /\ call_at = 0
  /\ last_failed = NoFailure
  /\ last_probe_at = NoTs
  /\ mark = NoMark
  /\ probe_since_mark = FALSE
  /\ invoked = {}
  /\ last_read = PyNone
  /\ last_set = [by |-> "init", rec |-> PyTuple(health_state, health_logs)]

Init == Constructed /\ track = FALSE
InitSeq == Constructed /\ track = TRUE

\* ------------------------------------------------------------- environment
Tick ==
  /\ clock < MaxTime
  /\ clock' = clock + 1
  /\ UNCHANGED <<dep, shared, pc, now, ts, tmp, exc, ret, resp, history, observed>>

DepFail ==
  /\ dep = "up"
  /\ dep' = "down"
  /\ UNCHANGED <<clock, shared, pc, now, ts, tmp, exc, ret, resp, history, observed>>

DepRecover ==
  /\ dep = "down"
  /\ dep' = "up"
  /\ UNCHANGED <<clock, shared, pc, now, ts, tmp, exc, ret, resp, history, observed>>

\* -------------------------------------------------------- get_health_state
get_health_state_call(t) ==
  /\ pc[t] = "idle"
  /\ pc' = [pc EXCEPT ![t] = "gh72a"]
  /\ pre' = Rec(pre, health_state)
  /\ call_at' = Rec(call_at, clock)
  /\ UNCHANGED <<env, shared, now, ts, tmp, exc, ret, resp, track, last_failed,
                 last_probe_at, mark, probe_since_mark, observed>>

\* A read that counts as a check: it also stamps the last-check time.
get_health_state_72a_Stamps(t) ==
  /\ pc[t] = "gh72a"
  /\ tmp' = [tmp EXCEPT ![t] = health_state]
  /\ last_health_check' = clock
  /\ pc' = [pc EXCEPT ![t] = "gh72b"]
  /\ UNCHANGED <<env, health_check_interval, health_state, health_logs, now, ts,
                 exc, ret, resp, history, observed>>

\* line 72, first attribute load: self.health_state
get_health_state_72a(t) ==
  /\ pc[t] = "gh72a"
  /\ tmp' = [tmp EXCEPT ![t] = health_state]
  /\ pc' = [pc EXCEPT ![t] = "gh72b"]
  /\ UNCHANGED <<env, shared, now, ts, exc, ret, resp, history, observed>>

\* line 72, second attribute load: self.health_logs; the tuple is returned
get_health_state_72b(t) ==
  /\ pc[t] = "gh72b"
  /\ ret' = [ret EXCEPT ![t] = PyTuple(tmp[t], health_logs)]
  /\ tmp' = [tmp EXCEPT ![t] = "-"]
  /\ pc' = [pc EXCEPT ![t] = "gh_ret"]
  /\ UNCHANGED <<env, shared, now, ts, exc, resp, history, observed>>

\* The caller has taken the result (or the exception): the frame is gone.
Return(t) ==
  /\ pc[t] \in {"gh_ret", "hc_ret", "sm_ret", "sm_raised"}
  /\ pc' = [pc EXCEPT ![t] = "idle"]
  /\ exc' = [exc EXCEPT ![t] = NoExc]
  /\ ret' = [ret EXCEPT ![t] = PyNone]
  /\ resp' = [resp EXCEPT ![t] = "-"]
  /\ last_read' = IF pc[t] = "gh_ret" THEN Rec(last_read, ret[t]) ELSE last_read
  /\ UNCHANGED <<env, shared, now, ts, tmp, history, invoked, last_set>>

\* --------------------------------------------------------- do_health_check
\* The gate of line 82 written with > in place of >=.
IntervalElapsedStrict(n, last, interval) == (n - last) > interval

\* The gate of line 82 opening one second early.
IntervalElapsedEarly(n, last, interval) == (n - last) + 1 >= interval

\* line 82: (now - self.last_health_check).total_seconds() >= self.health_check_interval
IntervalElapsed(n, last, interval) == (n - last) >= interval

\* line 92: the f-string stored in self.health_logs
ProbeFailureLog(e) == PyStr("Failed to get information from Telegram server: " \o e)

\* A failed probe reported with the severity of a degraded server.
ProbeFailedStateWarning == "WARNING"

\* lines 88 and 91: the severities a probe stores
ProbeOkState == "OK"
ProbeFailedState == "CRITICAL"

\* line 81: now = datetime.datetime.now()
do_health_check_call(t) ==
  /\ pc[t] = "idle"
  /\ now' = [now EXCEPT ![t] = clock]
  /\ pc' = [pc EXCEPT ![t] = "hc82"]
  /\ pre' = Rec(pre, health_state)
  /\ call_at' = Rec(call_at, clock)
  /\ invoked' = Rec(invoked, invoked \cup {"do_health_check"})
  /\ last_read' = Rec(last_read, PyNone)
  /\ UNCHANGED <<env, shared, ts, tmp, exc, ret, resp, track, last_failed,
                 last_probe_at, mark, probe_since_mark, last_set>>

\* A gate that reports a gated call as healthy.
do_health_check_82_Resets(t) ==
  /\ pc[t] = "hc82"
  /\ pc' = [pc EXCEPT ![t] =
              IF IntervalElapsed(now[t], last_health_check, health_check_interval)
              THEN "hc83" ELSE "hc93a"]
  /\ health_state' =
       IF IntervalElapsed(now[t], last_health_check, health_check_interval)
       THEN health_state ELSE "OK"
  /\ now' = [now EXCEPT ![t] = 0]
  /\ UNCHANGED <<env, health_check_interval, last_health_check, health_logs, ts,
                 tmp, exc, ret, resp, history, observed>>

\* A gate that records every call, gated or not, as a check.
do_health_check_82_Stamps(t) ==
  /\ pc[t] = "hc82"
  /\ pc' = [pc EXCEPT ![t] =
              IF IntervalElapsed(now[t], last_health_check, health_check_interval)
              THEN "hc83" ELSE "hc93a"]
  /\ last_health_check' = now[t]
  /\ now' = [now EXCEPT ![t] = 0]
  /\ UNCHANGED <<env, health_check_interval, health_state, health_logs, ts,
                 tmp, exc, ret, resp, history, observed>>

\* line 82: the gate; `now` is not read after it
do_health_check_82(t) ==
  /\ pc[t] = "hc82"
  /\ pc' = [pc EXCEPT ![t] =
              IF IntervalElapsed(now[t], last_health_check, health_check_interval)
              THEN "hc83" ELSE "hc93a"]
  /\ now' = [now EXCEPT ![t] = 0]
  /\ UNCHANGED <<env, shared, ts, tmp, exc, ret, resp, history, observed>>

\* line 83, right-hand side: datetime.datetime.now() is evaluated
do_health_check_83(t) ==
  /\ pc[t] = "hc83"
  /\ ts' = [ts EXCEPT ![t] = clock]
  /\ pc' = [pc EXCEPT ![t] = "hc83s"]
  /\ UNCHANGED <<env, shared, now, tmp, exc, ret, resp, history, observed>>

\* line 83, the store into self.last_health_check; lines 84-86: the GET
\* request to .../getMe is sent and the thread waits for the answer
\* (ts keeps the time the outstanding probe was stamped with)
do_health_check_83s(t) ==
  /\ pc[t] = "hc83s"
  /\ last_health_check' = ts[t]
  /\ pc' = [pc EXCEPT ![t] = "hc86"]
  /\ last_probe_at' = Rec(last_probe_at, call_at)
  /\ probe_since_mark' = Rec(probe_since_mark, mark.set)
  /\ UNCHANGED <<env, health_check_interval, health_state, health_logs, now, ts,
                 tmp, exc, ret, resp, track, pre, call_at, last_failed, mark,
                 observed>>

\* lines 86-87: the answer arrives; requests.get or raise_for_status raises
\* when the server is unreachable, too slow or answers a non-success status
do_health_check_86(t) ==
  /\ pc[t] = "hc86"
  /\ ts' = [ts EXCEPT ![t] = NoTs]
  /\ \/ /\ dep = "up"
        /\ resp' = [resp EXCEPT ![t] = "ok"]
        /\ pc' = [pc EXCEPT ![t] = "hc88"]
        /\ UNCHANGED <<exc, last_failed>>
     \/ /\ dep = "down"
        /\ \E e \in DepErrors :
             /\ exc' = [exc EXCEPT ![t] = e]
             /\ last_failed' = Rec(last_failed, [op |-> "probe", err |-> e])
        /\ resp' = [resp EXCEPT ![t] = "error"]
        /\ pc' = [pc EXCEPT ![t] = "hc91"]
  /\ UNCHANGED <<env, shared, now, tmp, ret, track, pre, call_at, last_probe_at,
                 mark, probe_since_mark, observed>>

\* line 88: self.health_state = "OK"
do_health_check_88(t) ==
  /\ pc[t] = "hc88"
  /\ health_state' = ProbeOkState
  /\ pc' = [pc EXCEPT ![t] = "hc89"]
  /\ UNCHANGED <<env, health_check_interval, last_health_check, health_logs, now,
                 ts, tmp, exc, ret, resp, history, observed>>

\* line 89: self.health_logs = None
do_health_check_89(t) ==
  /\ pc[t] = "hc89"
  /\ health_logs' = PyNone
  /\ last_set' = Rec(last_set, [by |-> "probe", rec |-> PyTuple(health_state, health_logs')])
  /\ pc' = [pc EXCEPT ![t] = "hc93a"]
  /\ UNCHANGED <<env, health_check_interval, last_health_check, health_state, now,
                 ts, tmp, exc, ret, resp, history, invoked,
                 last_read>>

\* line 91: self.health_state = "CRITICAL"
do_health_check_91(t) ==
  /\ pc[t] = "hc91"
  /\ health_state' = ProbeFailedState
  /\ pc' = [pc EXCEPT ![t] = "hc92"]
  /\ UNCHANGED <<env, health_check_interval, last_health_check, health_logs, now,
                 ts, tmp, exc, ret, resp, history, observed>>

\* line 92: self.health_logs = f"Failed to get information ...: {e}"; the
\* except block ends and `e` with it
do_health_check_92(t) ==
  /\ pc[t] = "hc92"
  /\ health_logs' = ProbeFailureLog(exc[t])
  /\ last_set' = Rec(last_set, [by |-> "probe", rec |-> PyTuple(health_state, health_logs')])
  /\ exc' = [exc EXCEPT ![t] = NoExc]
  /\ pc' = [pc EXCEPT ![t] = "hc93a"]
  /\ UNCHANGED <<env, health_check_interval, last_health_check, health_state, now,
                 ts, tmp, ret, resp, history, invoked,
                 last_read>>

\* line 93, first attribute load: self.health_state
do_health_check_93a(t) ==
  /\ pc[t] = "hc93a"
  /\ tmp' = [tmp EXCEPT ![t] = health_state]
  /\ pc' = [pc EXCEPT ![t] = "hc93b"]
  /\ UNCHANGED <<env, shared, now, ts, exc, ret, resp, history, observed>>

\* line 93, second attribute load: self.health_logs; the tuple is returned
do_health_check_93b(t) ==
  /\ pc[t] = "hc93b"
  /\ ret' = [ret EXCEPT ![t] = PyTuple(tmp[t], health_logs)]
  /\ tmp' = [tmp EXCEPT ![t] = "-"]
  /\ pc' = [pc EXCEPT ![t] = "hc_ret"]
  /\ UNCHANGED <<env, shared, now, ts, exc, resp, history, observed>>

\* ------------------------------------------------------------ send_message
\* line 122: the f-string stored in self.health_logs
SendFailureLog(e) == PyStr("Failed to send Telegram message: " \o e)

\* A failed send that only warns.
SendFailedStateWarning == "WARNING"

\* lines 117 and 121: the severities a send stores
SendOkState == "OK"
SendFailedState == "CRITICAL"

\* line 119: the value of the return statement; line 123: the except block
\* runs off the end of the function, which yields None
SendOkResult == PyBool(TRUE)
SendFailedResult == PyNone

\* lines 103-114: the log line with sms.get_id() (outside the try), then,
\* inside the try, sms.to_string() and the POST to .../sendMessage is sent.
\* id_raises / str_raises: whether the message entity's method raises.
send_message_call(t, id_raises, str_raises) ==
  /\ pc[t] = "idle"
  /\ pre' = Rec(pre, health_state)
  /\ call_at' = Rec(call_at, clock)
  /\ mark' = NoMark
  /\ probe_since_mark' = FALSE
  /\ IF id_raises
     THEN /\ exc' = [exc EXCEPT ![t] = IdError]
          /\ last_failed' = Rec(last_failed, [op |-> "send", err |-> IdError])
          /\ pc' = [pc EXCEPT ![t] = "sm_raised"]
     ELSE IF str_raises
     THEN /\ exc' = [exc EXCEPT ![t] = SerializeError]
          /\ last_failed' = Rec(last_failed, [op |-> "send", err |-> SerializeError])
          /\ pc' = [pc EXCEPT ![t] = "sm121"]
     ELSE /\ pc' = [pc EXCEPT ![t] = "sm106"]
          /\ UNCHANGED <<exc, last_failed>>
  /\ invoked' = Rec(invoked, invoked \cup {"send_message"})
  /\ last_read' = Rec(last_read, PyNone)
  /\ UNCHANGED <<env, shared, now, ts, tmp, ret, resp, track, last_probe_at,
                 last_set>>

\* lines 106-116: the answer arrives; on success the second log line calls
\* sms.get_id() again, still inside the try
send_message_106(t, id_raises) ==
  /\ pc[t] = "sm106"
  /\ \/ /\ dep = "up"
        /\ resp' = [resp EXCEPT ![t] = "ok"]
        /\ IF id_raises
           THEN /\ exc' = [exc EXCEPT ![t] = IdError]
                /\ last_failed' = Rec(last_failed, [op |-> "send", err |-> IdError])
                /\ pc' = [pc EXCEPT ![t] = "sm121"]
           ELSE /\ pc' = [pc EXCEPT ![t] = "sm117"]
                /\ UNCHANGED <<exc, last_failed>>
     \/ /\ dep = "down"
        /\ ~id_raises
        /\ \E e \in DepErrors :
             /\ exc' = [exc EXCEPT ![t] = e]
             /\ last_failed' = Rec(last_failed, [op |-> "send", err |-> e])
        /\ resp' = [resp EXCEPT ![t] = "error"]
        /\ pc' = [pc EXCEPT ![t] = "sm121"]
  /\ UNCHANGED <<env, shared, now, ts, tmp, ret, track, pre, call_at,
                 last_probe_at, mark, probe_since_mark, observed>>

\* line 117: self.health_state = "OK"
send_message_117(t) ==
  /\ pc[t] = "sm117"
  /\ health_state' = SendOkState
  /\ pc' = [pc EXCEPT ![t] = "sm118"]
  /\ UNCHANGED <<env, health_check_interval, last_health_check, health_logs, now,
                 ts, tmp, exc, ret, resp, history, observed>>

\* A successful send that counts as a health check.
send_message_118_Stamps(t) ==
  /\ pc[t] = "sm118"
  /\ health_logs' = PyNone
  /\ last_health_check' = clock
  /\ last_set' = Rec(last_set, [by |-> "send", rec |-> PyTuple(health_state, health_logs')])
  /\ ret' = [ret EXCEPT ![t] = SendOkResult]
  /\ pc' = [pc EXCEPT ![t] = "sm_ret"]
  /\ UNCHANGED <<env, health_check_interval, health_state, now,
                 ts, tmp, exc, resp, history, invoked,
                 last_read>>

\* lines 118-119: self.health_logs = None; return True
send_message_118(t) ==
  /\ pc[t] = "sm118"
  /\ health_logs' = PyNone
  /\ last_set' = Rec(last_set, [by |-> "send", rec |-> PyTuple(health_state, health_logs')])
  /\ ret' = [ret EXCEPT ![t] = SendOkResult]
  /\ pc' = [pc EXCEPT ![t] = "sm_ret"]
  /\ UNCHANGED <<env, health_check_interval, last_health_check, health_state, now,
                 ts, tmp, exc, resp, history, invoked,
                 last_read>>

\* line 121: self.health_state = "CRITICAL"
send_message_121(t) ==
  /\ pc[t] = "sm121"
  /\ health_state' = SendFailedState
  /\ pc' = [pc EXCEPT ![t] = "sm122"]
  /\ UNCHANGED <<env, health_check_interval, last_health_check, health_logs, now,
                 ts, tmp, exc, ret, resp, history, observed>>

\* lines 122-123: self.health_logs = f"Failed to send ...: {e}", then the log
\* line with sms.get_id() inside the handler; the function ends there,
\* without a return statement
send_message_122(t, id_raises) ==
  /\ pc[t] = "sm122"
  /\ health_logs' = SendFailureLog(exc[t])
  /\ last_set' = Rec(last_set, [by |-> "send", rec |-> PyTuple(health_state, health_logs')])
  /\ IF id_raises
     THEN /\ exc' = [exc EXCEPT ![t] = IdError]
          /\ pc' = [pc EXCEPT ![t] = "sm_raised"]
          /\ UNCHANGED ret
     ELSE /\ exc' = [exc EXCEPT ![t] = NoExc]
          /\ ret' = [ret EXCEPT ![t] = SendFailedResult]
          /\ pc' = [pc EXCEPT ![t] = "sm_ret"]
  /\ UNCHANGED <<env, health_check_interval, last_health_check, health_state, now,
                 ts, tmp, resp, history, invoked,
                 last_read>>

\* ---------------------------------------------------------- specifications
get_health_state(t) ==
  \/ get_health_state_call(t)
  \/ get_health_state_72a(t)
  \/ get_health_state_72b(t)

do_health_check(t) ==
  \/ do_health_check_call(t)
  \/ do_health_check_82(t)
  \/ do_health_check_83(t)
  \/ do_health_check_83s(t)
  \/ do_health_check_86(t)
  \/ do_health_check_88(t)
  \/ do_health_check_89(t)
  \/ do_health_check_91(t)
  \/ do_health_check_92(t)
  \/ do_health_check_93a(t)
  \/ do_health_check_93b(t)

send_message(t) ==
  \/ \E i, s \in BOOLEAN : send_message_call(t, i, s)
  \/ \E i \in BOOLEAN : send_message_106(t, i)
  \/ send_message_117(t)
  \/ send_message_118(t)
  \/ send_message_121(t)
  \/ \E i \in BOOLEAN : send_message_122(t, i)

\* The steps that begin a call, and the steps inside one.
Call(t) ==
  \/ get_health_state_call(t)
  \/ do_health_check_call(t)
  \/ \E i, s \in BOOLEAN : send_message_call(t, i, s)

Step(t) ==
  \/ get_health_state_72a(t)
  \/ get_health_state_72b(t)
  \/ do_health_check_82(t)
  \/ do_health_check_83(t)
  \/ do_health_check_83s(t)
  \/ do_health_check_86(t)
  \/ do_health_check_88(t)
  \/ do_health_check_89(t)
  \/ do_health_check_91(t)
  \/ do_health_check_92(t)
  \/ do_health_check_93a(t)
  \/ do_health_check_93b(t)
  \/ \E i \in BOOLEAN : send_message_106(t, i)
  \/ send_message_117(t)
  \/ send_message_118(t)
  \/ send_message_121(t)
  \/ \E i \in BOOLEAN : send_message_122(t, i)

\* Any number of threads call the adapter, with no lock around its state.
Next ==
  \/ Tick
  \/ DepFail
  \/ DepRecover
  \/ \E t \in Threads :
       \/ Call(t)
       \/ Step(t)
       \/ Return(t)

Spec == Init /\ [][Next]_vars

\* Sequential use: a call begins only when no other call is running.
AllIdle == \A u \in Threads : pc[u] = "idle"

\* History only: a returning do_health_check call is remembered as the
\* earlier call that later ones are compared with.
ReturnMarked(t) ==
  /\ pc[t] = "hc_ret"
  /\ mark' = [set |-> TRUE, at |-> call_at, probed |-> resp[t] # "-",
              ret |-> ret[t]]
  /\ probe_since_mark' = FALSE
  /\ pc' = [pc EXCEPT ![t] = "idle"]
  /\ exc' = [exc EXCEPT ![t] = NoExc]
  /\ ret' = [ret EXCEPT ![t] = PyNone]
  /\ resp' = [resp EXCEPT ![t] = "-"]
  /\ UNCHANGED <<env, shared, now, ts, tmp, track, pre, call_at, last_failed,
                 last_probe_at, observed>>

SeqNext ==
  \/ Tick
  \/ DepFail
  \/ DepRecover
  \/ \E t \in Threads :
       \/ AllIdle /\ Call(t)
       \/ Step(t)
       \/ Return(t)
       \/ ReturnMarked(t)

SpecSeq == InitSeq /\ [][SeqNext]_vars

\* Sequential use by a caller that keeps polling do_health_check while time
\* advances and the dependency, once reachable, stays reachable.
Poll == \E t \in Threads : AllIdle /\ do_health_check_call(t)
Progress == \E t \in Threads : Step(t) \/ Return(t)

LiveNext ==
  \/ Tick
  \/ DepRecover
  \/ \E t \in Threads :
       \/ AllIdle /\ Call(t)
       \/ Step(t)
       \/ Return(t)

SpecLive ==
  /\ InitSeq
  /\ [][LiveNext]_vars
  /\ WF_vars(Tick)
  /\ WF_vars(Progress)
  /\ SF_vars(Poll)

\* ------------------------------------------------------------------ claims
SendErrors == DepErrors \cup {SerializeError, IdError}

\* The records a whole update writes: line 60-61, 88-89 and 117-118; 91-92;
\* 121-122.
WholeRecords ==
  {PyTuple("OK", PyNone)}
    \cup {PyTuple("CRITICAL", ProbeFailureLog(e)) : e \in DepErrors}
    \cup {PyTuple("CRITICAL", SendFailureLog(e)) : e \in SendErrors}

\* The detail a failure leaves in the record.
FailureLog(f) ==
  IF f.op = "probe" THEN ProbeFailureLog(f.err) ELSE SendFailureLog(f.err)

\* C1: whenever send_message returns, it returns a boolean: True exactly when
\* the request succeeded and the value False on every failure.
C1_SendReturnsBoolean ==
  \A t \in Threads :
    pc[t] = "sm_ret" => ret[t] = PyBool(resp[t] = "ok")

\* C2: no exception escapes send_message, whatever the message entity and
\* the dependency do.
C2_NoExceptionEscapes ==
  \A t \in Threads : pc[t] # "sm_raised"

\* C3: the pair get_health_state returns, also while other threads update
\* the record, is a pair some update wrote as a whole (or the initial pair).
C3_NoTornRead ==
  \A t \in Threads : pc[t] = "gh_ret" => ret[t] \in WholeRecords

\* C4: between sequential calls, severity is OK iff the detail is absent, and
\* a severity other than OK comes with the non-empty message of the most
\* recent failed send or probe.
C4_HealthRecordInvariant ==
  AllIdle =>
    /\ (health_state = "OK") <=> (health_logs = PyNone)
    /\ health_state # "OK" =>
         /\ health_logs.type = "str"
         /\ Len(health_logs.val) > 0
         /\ health_logs = FailureLog(last_failed)

\* The first half of interval gating: a call that is about to contact the
\* probe endpoint was invoked at least the interval after the previous call
\* that contacted it, so no window shorter than the interval holds two.
OneProbePerWindow ==
  \A t \in Threads :
    (pc[t] \in {"hc83", "hc83s"} /\ last_probe_at # NoTs)
      => call_at - last_probe_at >= health_check_interval

\* C5: sequential do_health_check calls within a window shorter than the
\* interval contact the probe endpoint at most once, and with no send_message
\* between two of them the second returns what the first returned, without
\* network activity.
C5_IntervalGating ==
  /\ OneProbePerWindow
  /\ \A t \in Threads :
       (/\ pc[t] = "hc_ret"
        /\ mark.set
        /\ call_at - mark.at < health_check_interval)
         => (ret[t] = mark.ret /\ resp[t] = "-")

\* C5, amended: as C5, the second half for two calls such that no probe is
\* issued after the first has returned (as is the case when the first one
\* itself probed).
C5_IntervalGatingAmended ==
  /\ OneProbePerWindow
  /\ \A t \in Threads :
       (/\ pc[t] = "hc_ret"
        /\ mark.set
        /\ call_at - mark.at < health_check_interval
        /\ (mark.probed \/ ~probe_since_mark))
         => (ret[t] = mark.ret /\ resp[t] = "-")

\* A later call returns, inside the window of an earlier call that probed
\* and found the server failing.
C5_Witness ==
  \E t \in Threads :
    /\ pc[t] = "hc_ret"
    /\ mark.set
    /\ mark.probed
    /\ mark.at < call_at
    /\ call_at - mark.at < health_check_interval
    /\ mark.ret.val[1] = "CRITICAL"

\* A thread whose probe request is outstanding.
InFlight(t) == pc[t] = "hc86"

\* C6: while a probe is in flight, a further do_health_check made less than
\* the interval after it started issues no second probe, also from another
\* thread: two probes outstanding together were started at least the
\* interval apart.
C6_OneProbeOutstanding ==
  \A a, b \in Threads :
    (a # b /\ InFlight(a) /\ InFlight(b) /\ ts[a] <= ts[b])
      => ts[b] - ts[a] >= health_check_interval

\* C7: the last-check timestamp never decreases, with overlapping calls too,
\* and changes only in the step of do_health_check that starts a probe.
C7_TimestampMonotonic ==
  [][/\ last_health_check' >= last_health_check
     /\ last_health_check' # last_health_check
          => \E t \in Threads : pc[t] = "hc83s" /\ pc'[t] = "hc86"]_vars

\* C8: when a send_message call is over, however it ended, the health record
\* is the one that attempt sets: (OK, absent) after a success, (CRITICAL,
\* detail of this failure) after a failure.
C8_SendSetsHealth ==
  \A t \in Threads :
    pc[t] \in {"sm_ret", "sm_raised"} =>
      IF pc[t] = "sm_ret" /\ ret[t] = SendOkResult
      THEN HealthRecord = PyTuple("OK", PyNone)
      ELSE HealthRecord = PyTuple("CRITICAL", SendFailureLog(last_failed.err))

\* C9: a do_health_check call made once the interval has elapsed probes, and
\* when its probe fails the record becomes (CRITICAL, non-empty detail with
\* the error in it), which is also what the call returns.
C9_ProbeFailure ==
  \A t \in Threads :
    pc[t] = "hc_ret" =>
      /\ resp[t] = "-" => call_at - last_health_check < health_check_interval
      /\ resp[t] = "error" =>
           /\ last_failed.op = "probe"
           /\ last_failed.err \in DepErrors
           /\ HealthRecord = PyTuple("CRITICAL", ProbeFailureLog(last_failed.err))
           /\ Len(health_logs.val) > 0
           /\ ret[t] = HealthRecord

\* A probe has failed in a call that began with the record at OK.
C9_Witness ==
  \E t \in Threads :
    pc[t] = "hc_ret" /\ resp[t] = "error" /\ pre = "OK"
       /\ health_state = "CRITICAL"

\* A do_health_check whose probe succeeded leaves, and returns, (OK, absent).
RecoveredAtReturn ==
  \A t \in Threads :
    (pc[t] = "hc_ret" /\ resp[t] = "ok") =>
      (HealthRecord = PyTuple("OK", PyNone) /\ ret[t] = HealthRecord)

\* The record is CRITICAL, the dependency is reachable and the horizon of the
\* clock leaves room for the interval to elapse.
CriticalAndReachable ==
  /\ health_state = "CRITICAL"
  /\ dep = "up"
  /\ last_health_check + health_check_interval <= MaxTime

\* C10: a successful probe resets a CRITICAL record to (OK, absent); with the
\* dependency reachable and the caller polling while time advances, a
\* CRITICAL state is eventually followed by OK.
C10_ProbeRecovery ==
  /\ []RecoveredAtReturn
  /\ (CriticalAndReachable ~> health_state = "OK")

\* A successful probe has just reset a record that a failed send had left
\* CRITICAL.
C10_Witness ==
  \E t \in Threads :
    /\ pc[t] = "hc_ret"
    /\ resp[t] = "ok"
    /\ pre = "CRITICAL"
    /\ last_failed.op = "send"
    /\ HealthRecord = PyTuple("OK", PyNone)

\* C11: a send_message whose request succeeded returns True and leaves the
\* health record at (OK, absent), whatever the record was before.
C11_SendSuccess ==
  \A t \in Threads :
    (pc[t] \in {"sm_ret", "sm_raised"} /\ resp[t] = "ok") =>
      /\ pc[t] = "sm_ret"
      /\ ret[t] = PyBool(TRUE)
      /\ HealthRecord = PyTuple("OK", PyNone)

\* A thread is inside get_health_state.
InGet(t) == pc[t] \in {"gh72a", "gh72b", "gh_ret"}

\* What get_health_state returns is the record as it stands, and the same as
\* the preceding get_health_state returned when no do_health_check or
\* send_message was called in between.
ReadIsRepeatable ==
  \A t \in Threads :
    pc[t] = "gh_ret" =>
      /\ ret[t] = HealthRecord
      /\ last_read # PyNone => ret[t] = last_read

\* C12: get_health_state is a pure read: no request is sent and neither the
\* health record nor the last-check timestamp changes while it runs, and
\* consecutive calls return identical results.
C12_PureRead ==
  /\ []ReadIsRepeatable
  /\ [][(\E t \in Threads : InGet(t) \/ InGet(t)') =>
          /\ shared' = shared
          /\ \A u \in Threads :
               pc'[u] \in {"hc86", "sm106"} => pc[u] = pc'[u]]_vars

\* A second get_health_state in a row returns, with the record at CRITICAL.
C12_Witness ==
  \E t \in Threads :
    /\ pc[t] = "gh_ret"
    /\ last_read # PyNone
    /\ ret[t].val[1] = "CRITICAL"

\* Neither do_health_check nor send_message has been invoked yet.
Fresh == invoked = {}

\* C13: a freshly constructed adapter holds (OK, absent) and a last-check
\* timestamp equal to its construction time, and get_health_state returns
\* (OK, absent) before any other operation is invoked.
C13_InitialState ==
  Fresh =>
    /\ HealthRecord = PyTuple("OK", PyNone)
    /\ last_health_check = ConstructionTime
    /\ \A t \in Threads :
         pc[t] = "gh_ret" => ret[t] = PyTuple("OK", PyNone)

\* get_health_state returns on an adapter nothing else was called on, some
\* time after construction.
C13_Witness ==
  \E t \in Threads : pc[t] = "gh_ret" /\ Fresh /\ clock > ConstructionTime

\* C14: the health record changes only in a step of a call whose request to
\* the dependency has been issued and has completed; a failure before the
\* request is issued does not change it.
C14_ChangesOnlyAfterRequest ==
  [][HealthRecord' # HealthRecord =>
       \E t \in Threads :
         pc'[t] # pc[t] /\ resp[t] \in {"ok", "error"}]_vars

\* C14, amended: the health record changes only in a step of a call whose
\* request has completed, or of a send_message whose sms.to_string() raised
\* before the request was issued.
C14_ChangesOnlyInAttempt ==
  [][HealthRecord' # HealthRecord =>
       \E t \in Threads :
         /\ pc'[t] # pc[t]
         /\ resp[t] \in {"ok", "error"} \/ exc[t] = SerializeError]_vars

\* A send whose serialization failed, with no request issued, has turned a
\* record that was OK to CRITICAL.
C14_Witness ==
  \E t \in Threads :
    /\ pc[t] = "sm122"
    /\ exc[t] = SerializeError
    /\ resp[t] = "-"
    /\ pre = "OK"
    /\ health_state = "CRITICAL"

\* A do_health_check call made before the interval has elapsed since the
\* last check, from its gate to its return.
Gated(t) ==
  /\ resp[t] = "-"
  /\ \/ /\ pc[t] = "hc82"
        /\ call_at - last_health_check < health_check_interval
     \/ pc[t] \in {"hc93a", "hc93b", "hc_ret"}

\* C15: a do_health_check made before the interval has elapsed stays gated
\* until it returns, issues no request, leaves health_state, health_logs and
\* last_health_check unchanged, and returns the record as it stands, which
\* is the one the last send or performed probe wrote.
C15_GatedCall ==
  /\ [](\A t \in Threads :
          (Gated(t) /\ pc[t] = "hc_ret") =>
            /\ ret[t] = HealthRecord
            /\ ret[t] = last_set.rec)
  /\ [][\A t \in Threads :
          Gated(t) =>
            /\ shared' = shared
            /\ pc'[t] = "idle" \/ Gated(t)'
            /\ \A u \in Threads :
                 pc'[u] \in {"hc83", "hc86", "sm106"} => pc[u] = pc'[u]]_vars

\* A gated call returns the CRITICAL record of a failed send that came after
\* a performed probe, while the dependency is reachable.
C15_Witness ==
  \E t \in Threads :
    /\ Gated(t)
    /\ pc[t] = "hc_ret"
    /\ last_set.by = "send"
    /\ last_probe_at # NoTs
    /\ ret[t].val[1] = "CRITICAL"
    /\ dep = "up"

Severities == {"OK", "CRITICAL"}

\* C16: in every reachable state the severity stored, and the severity of
\* every tuple a call returns, is OK or CRITICAL, never WARNING.
C16_SeverityRange ==
  /\ health_state \in Severities
  /\ \A t \in Threads :
       pc[t] \in {"gh_ret", "hc_ret"} => ret[t].val[1] \in Severities

\* Both severities are returned: a CRITICAL one by do_health_check after an
\* OK one was read.
C16_Witness ==
  \E t \in Threads :
    /\ pc[t] = "hc_ret"
    /\ ret[t].val[1] = "CRITICAL"
    /\ pre = "OK"
    /\ invoked = {"do_health_check", "send_message"}

\* Every call has completed: no thread is between a call and its return.
AllCompleted ==
  \A t \in Threads : pc[t] \in {"idle", "gh_ret", "hc_ret", "sm_ret", "sm_raised"}

\* C17: once overlapping send_message and do_health_check calls have all
\* completed, the record is the whole (severity, detail) pair one of them
\* wrote, never severity from one and detail from another.
C17_LastWriterWins ==
  AllCompleted => HealthRecord \in WholeRecords

\* A thread is in send_message, from its first statement to its return.
InSend(t) ==
  pc[t] \in {"sm106", "sm117", "sm118", "sm121", "sm122", "sm_ret", "sm_raised"}

\* C18: no step of a send_message, from call to return, changes
\* last_health_check or the interval, so the times at which the gate of
\* do_health_check opens stay the same, and none starts a probe.
C18_SendLeavesTimestamp ==
  [][\A t \in Threads :
       (InSend(t) \/ InSend(t)') =>
         /\ last_health_check' = last_health_check
         /\ \A n \in Times :
              IntervalElapsed(n, last_health_check', health_check_interval')
                <=> IntervalElapsed(n, last_health_check, health_check_interval)
         /\ \A u \in Threads :
              pc'[u] \in {"hc83", "hc83s", "hc86"} => pc[u] = pc'[u]]_vars

\* A successful send returns at a time when a probe is due, after an
\* earlier probe moved the timestamp.
C18_Witness ==
  \E t \in Threads :
    /\ pc[t] = "sm_ret"
    /\ resp[t] = "ok"
    /\ last_probe_at # NoTs
    /\ last_health_check > ConstructionTime
    /\ IntervalElapsed(clock, last_health_check, health_check_interval)

\* A do_health_check invoked less than one interval after construction.
BeforeFirstInterval(t) ==
  /\ pc[t] \in {"hc82", "hc83", "hc83s", "hc86", "hc88", "hc89", "hc91", "hc92",
                "hc93a", "hc93b", "hc_ret"}
  /\ call_at - ConstructionTime < health_check_interval

\* C19: a do_health_check invoked less than one interval after construction
\* never passes the gate and sends no request; if no send_message was
\* invoked before it, it returns (OK, None), whether or not the dependency
\* is reachable.
C19_NoProbeBeforeFirstInterval ==
  \A t \in Threads :
    BeforeFirstInterval(t) =>
      /\ pc[t] \in {"hc82", "hc93a", "hc93b", "hc_ret"}
      /\ resp[t] = "-"
      /\ last_health_check = ConstructionTime
      /\ (pc[t] = "hc_ret" /\ "send_message" \notin invoked) =>
           ret[t] = PyTuple("OK", PyNone)

\* An early call returns while the dependency is unreachable and time has
\* passed since construction.
C19_Witness ==
  \E t \in Threads :
    /\ BeforeFirstInterval(t)
    /\ pc[t] = "hc_ret"
    /\ "send_message" \notin invoked
    /\ dep = "down"
    /\ clock > ConstructionTime
====
